---- MODULE Spec2Model ----
(***************************************************************************)
(* Harvest-and-consolidate control logic of scrape-extract-jobs:           *)
(*   - career_page_scraper         (src/src/scraper/scraper.py,            *)
(*                                  src/src/utils.py)                      *)
(*   - career_page_html_extractor  (src/src/html_extractor/extractor.py)   *)
(*   - post_extraction_cleaner     (src/src/post_extraction/post.py)       *)
(* Text is modelled with TLA+ strings; Len, \o and SubSeq act on them as   *)
(* Python's len, + and slicing do.                                         *)
(***************************************************************************)
EXTENDS Integers, Sequences, FiniteSets, TLC

VARIABLES
    \* ---- find_substring, called on its own (SpecFind)
    fs_substring,   \* argument `substring`
    fs_string,      \* argument `_string_`
    return_pos,     \* the returned list
    fs_pc,          \* "idle" | "ready" | "done"
    \* ---- the two directory trees of career_page_html_extractor
    split_folder,       \* HTML artifacts under split_folder_path: a set of
                        \* [company, data_software, html_file, content];
                        \* data_software = "" for a file lying directly in
                        \* the company directory
    extracted_folder,   \* the tree under extracted_foler_path:
                        \* [dirs: set of <<company, data_software>>,
                        \*  files: set of [company, data_software,
                        \*                 file_name, content]]
    \* ---- career_page_scraper.scrape (SpecScrape)
    scraping_info_df,   \* the rows of the configuration, in file order
    scrape_pc,          \* "rows" | "pages" | "done" | "raised" | "off"
    row_ix,             \* position of the `for _, r` loop
    page_n,             \* n of the loop of scrape_link_manu_wi_chromium
    fetched,            \* the fetches, in order: [row, n, url, outcome]
    written,            \* the calls of save_html, in order: [row, n, company,
                        \* data_software, html_file]
    \* ---- produce_predicts (Spec)
    driver_run,         \* the number of the run of the batch driver
    driver_pc,          \* "idle" | "company" | "entries" | "files" |
                        \* "done" | "raised"
    company_list,           \* sorted os.listdir(split_folder_path)
    company_list_extracted, \* os.listdir(extracted_foler_path) at the start
    company_ix,         \* position of the `for company` loop
    ds_pending,         \* entries of the company directory not yet visited
    cur_data_software,  \* the sub-collection the inner loop is in
    html_pending,       \* files of that sub-collection not yet visited
    calls,              \* the calls of call_make_predictions, in order
    invocations,        \* the calls of make_predictions, in order
    \* ---- post_extraction_cleaner (SpecPost)
    post_pc,            \* the method initiate_post_process is about to call,
                        \* or "new" | "done" | "raised" | "off"
    post_error,         \* the exception that ended the run, "" when none
    post_run,           \* the number of the Consolidation run
    master_df,          \* self.master_df: None or a DataFrame
    job_database_df,    \* self.job_database_df: None or a DataFrame
    master_df_file,     \* the file at master_df_save_path (the run output)
    job_database_file,  \* the file at job_database_df_path (the store)
    gj_companies,       \* get_job_df: companies os.listdir has yet to yield
    gj_company,         \* get_job_df: the company of the outer loop
    gj_entries          \* get_job_df: its entries yet to be yielded

fvars == <<fs_substring, fs_string, return_pos, fs_pc>>
treevars == <<split_folder, extracted_folder>>
svars == <<scraping_info_df, scrape_pc, row_ix, page_n, fetched, written>>
dvars == <<driver_run, driver_pc, company_list, company_list_extracted, company_ix,
           ds_pending, cur_data_software, html_pending, calls, invocations>>

pvars == <<post_pc, post_error, post_run, master_df, job_database_df, master_df_file,
           job_database_file, gj_companies, gj_company, gj_entries>>

vars == <<fvars, treevars, svars, dvars, pvars>>

(***************************************************************************)
(* The state of a component that is not running                            *)
(***************************************************************************)
FindIdle ==
    /\ fs_substring = ""
    /\ fs_string = ""
    /\ return_pos = <<>>
    /\ fs_pc = "idle"

ScrapeIdle ==
    /\ scraping_info_df = <<>>
    /\ scrape_pc = "off"
    /\ row_ix = 0
    /\ page_n = 0
    /\ fetched = <<>>
    /\ written = <<>>

DriverIdle ==
    /\ split_folder = {}
    /\ driver_run = 0
    /\ driver_pc = "off"
    /\ company_list = <<>>
    /\ company_list_extracted = {}
    /\ company_ix = 0
    /\ ds_pending = {}
    /\ cur_data_software = ""
    /\ html_pending = <<>>
    /\ calls = <<>>
    /\ invocations = <<>>

\* pandas values: a DataFrame is [is_none, columns, rows], rows a sequence of
\* functions from the columns; None is the record with is_none = TRUE
NoneDF == [is_none |-> TRUE, columns |-> {}, rows |-> <<>>]

PostIdle ==
    /\ post_pc = "off"
    /\ post_error = ""
    /\ post_run = 0
    /\ master_df = NoneDF
    /\ job_database_df = NoneDF
    /\ master_df_file = NoneDF
    /\ job_database_file = NoneDF
    /\ gj_companies = {}
    /\ gj_company = ""
    /\ gj_entries = {}

(***************************************************************************)
(* Python string primitives                                                *)
(***************************************************************************)
Min(S) == CHOOSE x \in S : \A y \in S : x <= y
Max(S) == CHOOSE x \in S : \A y \in S : x >= y

\* s[i:j] for 0 <= i, j (Python slice, clamped to the string)
Slice(s, i, j) == SubSeq(s, i + 1, IF j > Len(s) THEN Len(s) ELSE j)

\* the 0-based offsets o with s[o : o+len(sub)] == sub
OccursAt(sub, s) ==
    {o \in 0..(Len(s) - Len(sub)) : Slice(s, o, o + Len(sub)) = sub}

\* `sub in s`
Contains(sub, s) ==
    \E o \in 0..(Len(s) - Len(sub)) : Slice(s, o, o + Len(sub)) = sub

\* s.startswith(p)
StartsWith(s, p) == Len(p) <= Len(s) /\ Slice(s, 0, Len(p)) = p

\* str.split(sep) for a non-empty separator: the leftmost occurrence is cut
\* out and the scan resumes after it
RECURSIVE split(_, _)
split(s, sep) ==
    IF ~Contains(sep, s) THEN <<s>>
    ELSE LET o == Min(OccursAt(sep, s))
         IN  <<Slice(s, 0, o)>> \o split(Slice(s, o + Len(sep), Len(s)), sep)

(***************************************************************************)
(* career_page_html_extractor.find_substring                               *)
(***************************************************************************)
\* the loop of lines 105-108 after k iterations: return_pos and offset
RECURSIVE find_substring_loop(_, _, _)
find_substring_loop(split_string, sublen, k) ==
    IF k = 0 THEN [return_pos |-> <<>>, offset |-> 0]
    ELSE LET prev == find_substring_loop(split_string, sublen, k - 1)
             s    == split_string[k]
         IN  [return_pos |-> Append(prev.return_pos, Len(s) + prev.offset),
              offset     |-> prev.offset + sublen + Len(s)]

\* the accumulation with `offset += len(s)` only
find_substring_noseplen(substring, string) ==
    LET split_string == split(string, substring)
    IN  find_substring_loop(split_string, 0, Len(split_string) - 1).return_pos

find_substring(substring, string) ==
    LET split_string == split(string, substring)
    IN  find_substring_loop(split_string, Len(substring),
                            Len(split_string) - 1).return_pos

(***************************************************************************)
(* list.sort() on file names: strings compare by code point                *)
(***************************************************************************)
AsciiOrder ==
    " ,-./0123456789:ABCDEFGHIJKLMNOPQRSTUVWXYZ_abcdefghijklmnopqrstuvwxyz"

Rank(ch) == CHOOSE i \in 1..Len(AsciiOrder) : SubSeq(AsciiOrder, i, i) = ch

RECURSIVE StrLess(_, _)
StrLess(a, b) ==
    IF b = "" THEN FALSE
    ELSE IF a = "" THEN TRUE
    ELSE LET x == Rank(Slice(a, 0, 1))
             y == Rank(Slice(b, 0, 1))
         IN  IF x # y THEN x < y
             ELSE StrLess(Slice(a, 1, Len(a)), Slice(b, 1, Len(b)))

RECURSIVE SortedStrings(_)
SortedStrings(S) ==
    IF S = {} THEN <<>>
    ELSE LET m == CHOOSE x \in S : \A y \in S \ {x} : StrLess(x, y)
         IN  <<m>> \o SortedStrings(S \ {m})

(***************************************************************************)
(* Constants of src/src/constants.py and of the extractor                  *)
(***************************************************************************)
EXTRACTOR_BUFFER == 1000
\* len(EXTRACTOR_PROMPT.format("")): the characters of the prompt template
EXTRACTOR_PROMPT_LEN == 538
\* the bound of `if len(input_prompt) < 100_000`
MAX_PROMPT_LEN == 100000

EXTRACTOR_CHECK ==
    [company \in {"apple", "amazon", "adobe", "airbnb", "google", "meta",
                  "notion", "lyft"} |->
        CASE company = "apple"  -> "/en-us/details/"
          [] company = "amazon" -> "/en/jobs/2949643/"
          [] company = "adobe"  -> "https://careers.adobe.com/us/en/job/"
          [] company = "airbnb" -> "https://careers.airbnb.com/positions/"
          [] company = "google" -> "jobs/results/"
          [] company = "meta"   -> "/jobs/"
          [] company = "notion" ->
                 "https://job-boards.greenhouse.io/notion/jobs/"
          [] company = "lyft"   ->
                 "https://app.careerpuck.com/job-board/lyft/job/"]

(***************************************************************************)
(* The directory trees, as os.listdir / os.path.isdir see them             *)
(***************************************************************************)
\* os.listdir(split_folder_path)
ListSplit == {f.company : f \in split_folder}

\* os.listdir(split_folder_path / company): sub-collections and flat files
ListCompany(company) ==
    {IF f.data_software = "" THEN f.html_file ELSE f.data_software :
        f \in {g \in split_folder : g.company = company}}

\* os.path.isdir(split_folder_path / company / entry)
IsDir(company, entry) ==
    \E f \in split_folder : f.company = company /\ f.data_software = entry

\* os.listdir(extracted_foler_path)
ListExtracted == {d[1] : d \in extracted_folder.dirs}

\* u.read_html
read_html(company, data_software, html_file) ==
    (CHOOSE f \in split_folder :
        /\ f.company = company
        /\ f.data_software = data_software
        /\ f.html_file = html_file).content

\* data_software_contents: the files of one sub-collection, [] when absent
data_software_contents(company, data_software) ==
    IF data_software \in ListCompany(company)
    THEN {f.html_file : f \in {g \in split_folder :
                g.company = company /\ g.data_software = data_software}}
    ELSE {}

\* u.save_response_as_txt: open(path, "w") replaces a file of the same path
save_response_as_txt(files, company, data_software, file_name, response) ==
    {f \in files : ~(/\ f.company = company
                     /\ f.data_software = data_software
                     /\ f.file_name = file_name)}
    \cup {[company |-> company, data_software |-> data_software,
           file_name |-> file_name, content |-> response]}

(***************************************************************************)
(* Model output and fragment text.  A text is a sequence of tokens         *)
(*   [t, s, d]: t the kind, s the characters of a "prose" token, d the     *)
(*   key/value pairs of a "dict" token (a JSON object, values as text).    *)
(* Kinds: "marker"  the text "### Response:\n"      (c.POST_START_TXT)     *)
(*        "eot"     the text "<|end_of_text|>"      (c.POST_END_TXT)       *)
(*        "lbrack" "[", "rbrack" "]"                                       *)
(*        "dict"    a JSON object; "sdict" the same written with single    *)
(*                  quotes; "adict" a double-quoted object with an         *)
(*                  apostrophe inside a value                              *)
(*        "scalar"  a JSON value that is no object (here the number 5)     *)
(*        "deep"    a run of "[" longer than the interpreter's recursion   *)
(*                  limit                                                  *)
(*        "prose"   any other characters, none of them a bracket or quote  *)
(* List elements are separated by ", ".                                    *)
(***************************************************************************)
NoDict == [k \in {} |-> ""]
Tok(t) == [t |-> t, s |-> "", d |-> NoDict]
Prose(s) == [t |-> "prose", s |-> s, d |-> NoDict]
Dict(d) == [t |-> "dict", s |-> "", d |-> d]
SDict(d) == [t |-> "sdict", s |-> "", d |-> d]
ADict(d) == [t |-> "adict", s |-> "", d |-> d]

\* sys.getrecursionlimit() of CPython
RECURSION_LIMIT == 1000

RECURSIVE SumOver(_, _)
SumOver(S, f) ==
    IF S = {} THEN 0
    ELSE LET x == CHOOSE y \in S : TRUE IN f[x] + SumOver(S \ {x}, f)

\* len() of one token
TokLen(tok) ==
    CASE tok.t = "marker" -> 14
      [] tok.t = "eot"    -> 15
      [] tok.t \in {"lbrack", "rbrack", "scalar"} -> 1
      [] tok.t = "deep"   -> RECURSION_LIMIT + 1
      [] tok.t = "prose"  -> Len(tok.s)
      [] OTHER ->   \* {"k": "v", ...}
            2 + SumOver(DOMAIN tok.d,
                        [k \in DOMAIN tok.d |-> Len(k) + Len(tok.d[k]) + 6])
              + (IF tok.d = NoDict THEN 0
                 ELSE 2 * (Cardinality(DOMAIN tok.d) - 1))

IsElement(tok) == tok.t \in {"dict", "sdict", "adict", "scalar"}

\* len() of a text
RECURSIVE TextLen(_)
TextLen(text) ==
    IF text = <<>> THEN 0
    ELSE TokLen(Head(text))
         + (IF Len(text) > 1 /\ IsElement(text[1]) /\ IsElement(text[2])
            THEN 2 ELSE 0)
         + TextLen(Tail(text))

\* text.replace(marker, ""): every occurrence goes
RemoveKind(text, kind) == SelectSeq(text, LAMBDA tok : tok.t # kind)

\* text.replace("'", '"'): single-quoted objects become JSON objects, and an
\* apostrophe inside a value ends the value's string early
ReplaceQuotes(text) ==
    [i \in 1..Len(text) |->
        CASE text[i].t = "sdict" -> Dict(text[i].d)
          [] text[i].t = "adict" -> Prose("{\"")
          [] OTHER -> text[i]]

\* the last character of a non-empty text, text[-1:]
LastChar(text) ==
    LET tok == text[Len(text)]
    IN  CASE tok.t \in {"rbrack", "lbrack", "scalar"} -> <<tok>>
          [] tok.t = "deep"  -> <<Tok("lbrack")>>
          [] tok.t = "eot"   -> <<Prose(">")>>
          [] tok.t = "marker" -> <<Prose(" ")>>
          [] tok.t = "prose" -> <<Prose(Slice(tok.s, Len(tok.s) - 1, Len(tok.s)))>>
          [] OTHER -> <<Prose("}")>>

\* career_page_html_extractor.make_predictions, lines 179-181: the decoded
\* output from its first '### Response:' on; str.find gives -1 when there is
\* none and the slice [-1:] keeps the last character
make_predictions(pred_output) ==
    LET at == {i \in 1..Len(pred_output) : pred_output[i].t = "marker"}
    IN  IF at # {} THEN SubSeq(pred_output, Min(at), Len(pred_output))
        ELSE LastChar(pred_output)

(***************************************************************************)
(* career_page_html_extractor.call_make_predictions                        *)
(***************************************************************************)
\* lines 226-230: one window per anchor offset, with its index ix
Windows(company, html_content) ==
    LET important_pos == find_substring(EXTRACTOR_CHECK[company], html_content)
    IN  [i \in 1..Len(important_pos) |->
            LET pos == important_pos[i]
            IN  [ix  |-> i - 1,
                 pos |-> pos,
                 html_content_split |->
                     Slice(html_content,
                           Max({0, pos - EXTRACTOR_BUFFER}),
                           Min({Len(html_content), pos + EXTRACTOR_BUFFER}))]]

\* len(input_prompt) of return_prompt(html_content_split)
PromptLen(html_content_split) == EXTRACTOR_PROMPT_LEN + Len(html_content_split)

\* line 232 with the comparison turned round
Requests_oversized(company, html_content) ==
    SelectSeq(Windows(company, html_content),
              LAMBDA w : PromptLen(w.html_content_split) > MAX_PROMPT_LEN)

\* line 232: the windows whose request is passed to make_predictions
Requests(company, html_content) ==
    SelectSeq(Windows(company, html_content),
              LAMBDA w : PromptLen(w.html_content_split) < MAX_PROMPT_LEN)

\* f"extracted_{html_file[:-4]}_part_{ix}.txt"
FragmentName(html_file, ix) ==
    "extracted_" \o Slice(html_file, 0, Len(html_file) - 4)
                 \o "_part_" \o ToString(ix) \o ".txt"

\* What the Extraction Model may decode to: the prompt echoed, then either a
\* marked response or text without the marker
ModelOutputs ==
    {<<Prose("### Instruction:"), Tok("marker"), Tok("lbrack"),
       Dict([k \in {"Job Title", "Job Location", "Job ID", "Job Link"} |->
               CASE k = "Job Title"    -> "Data Engineer"
                 [] k = "Job Location" -> "Austin, United States"
                 [] k = "Job ID"       -> "7"
                 [] k = "Job Link"     -> "/jobs/7"]),
       Tok("rbrack"), Tok("eot")>>,
     <<Prose("### Instruction:"), Prose("no jobs")>>}

\* What the environment does to one call: `completed` requests are answered
\* and saved; then, unless failure = "none", the next one raises, either in
\* make_predictions ("model") or in save_response_as_txt ("write").
Fates(n) ==
    {[completed |-> n, failure |-> "none"]}
    \cup {[completed |-> k, failure |-> m] :
            k \in 0..(n - 1), m \in {"model", "write"}}

\* what the calls of call_make_predictions have left to do in common
RequestsOf(company, data_software, html_file) ==
    IF company \in DOMAIN EXTRACTOR_CHECK
    THEN Requests(company, read_html(company, data_software, html_file))
    ELSE <<>>

\* lines 234-241 for the first k requests: the tree after their fragments
\* were saved
RECURSIVE SaveLoop(_, _, _, _, _, _, _)
SaveLoop(tree, company, data_software, html_file, reqs, outputs, k) ==
    IF k = 0 THEN tree
    ELSE LET prev == SaveLoop(tree, company, data_software, html_file,
                              reqs, outputs, k - 1)
         IN  [dirs  |-> prev.dirs \cup {<<company, data_software>>},
              files |-> save_response_as_txt(
                            prev.files, company, data_software,
                            FragmentName(html_file, reqs[k].ix),
                            make_predictions(outputs[k]))]

\* the call without the test of lines 222-223, and with the whole artifact
\* as its one window when the anchor is not found
call_make_predictions_unfiltered(company, data_software, html_file, fate, outputs) ==
    LET html_content == read_html(company, data_software, html_file)
    IN  IF company \notin DOMAIN EXTRACTOR_CHECK
        THEN [raised |-> TRUE, tree |-> extracted_folder, sent |-> <<>>]
        ELSE IF Requests(company, html_content) = <<>>
        THEN [raised |-> FALSE, tree |-> extracted_folder,
              sent |-> <<[company |-> company,
                          data_software |-> data_software,
                          html_file |-> html_file, ix |-> 0,
                          html_content_split |-> html_content]>>]
        ELSE LET reqs  == Requests(company, html_content)
                 fails == fate.failure # "none"
                 nsent == IF fails THEN fate.completed + 1 ELSE fate.completed
                 saved == SaveLoop(extracted_folder, company, data_software,
                                   html_file, reqs, outputs, fate.completed)
             IN  [raised |-> fails,
                  tree |->
                    IF fate.failure = "write"
                    THEN [saved EXCEPT !.dirs =
                              @ \cup {<<company, data_software>>}]
                    ELSE saved,
                  sent |-> [i \in 1..nsent |->
                              [company |-> company,
                               data_software |-> data_software,
                               html_file |-> html_file,
                               ix |-> reqs[i].ix,
                               html_content_split |->
                                   reqs[i].html_content_split]]]

\* The call under a fate, the model answering outputs[i] to the i-th
\* request: whether it raised, the extracted tree it leaves, and the
\* requests it passed to make_predictions.
call_make_predictions(company, data_software, html_file, fate, outputs) ==
    LET html_content == read_html(company, data_software, html_file)
        should_i_make_preds ==
            ~(company \in DOMAIN EXTRACTOR_CHECK
              /\ ~Contains(EXTRACTOR_CHECK[company], html_content))
    IN  IF ~should_i_make_preds
        THEN [raised |-> FALSE, tree |-> extracted_folder, sent |-> <<>>]
        ELSE IF company \notin DOMAIN EXTRACTOR_CHECK
        THEN \* c.EXTRACTOR_CHECK[company] raises KeyError (line 226)
             [raised |-> TRUE, tree |-> extracted_folder, sent |-> <<>>]
        ELSE LET reqs  == Requests(company, html_content)
                 fails == fate.failure # "none"
                 nsent == IF fails THEN fate.completed + 1 ELSE fate.completed
                 saved == SaveLoop(extracted_folder, company, data_software,
                                   html_file, reqs, outputs, fate.completed)
             IN  [raised |-> fails,
                  tree |->
                    IF fate.failure = "write"
                    THEN [saved EXCEPT !.dirs =
                              @ \cup {<<company, data_software>>}]
                    ELSE saved,
                  sent |-> [i \in 1..nsent |->
                              [company |-> company,
                               data_software |-> data_software,
                               html_file |-> html_file,
                               ix |-> reqs[i].ix,
                               html_content_split |->
                                   reqs[i].html_content_split]]]

\* the rest of one call inside produce_predicts: the environment picks the
\* fate and the model's outputs
CallMakePredictions(company, data_software, html_file) ==
    LET n == Len(RequestsOf(company, data_software, html_file))
    IN  \E fate \in Fates(n) :
        \E outputs \in [1..fate.completed -> ModelOutputs] :
            LET r == call_make_predictions(company, data_software, html_file,
                                           fate, outputs)
            IN  /\ extracted_folder' = r.tree
                /\ invocations' = invocations \o
                       [i \in 1..Len(r.sent) |->
                           [run |-> driver_run] @@ r.sent[i]]
                /\ calls' = Append(calls, [run |-> driver_run,
                                           company |-> company,
                                           data_software |-> data_software,
                                           html_file |-> html_file,
                                           raised |-> r.raised])
                /\ driver_pc' = IF r.raised THEN "raised" ELSE driver_pc

(***************************************************************************)
(* career_page_html_extractor.produce_predicts                             *)
(***************************************************************************)
CurrentCompany == company_list[company_ix]

\* lines 253-254
ProducePredictsStart ==
    /\ driver_pc = "idle"
    /\ company_list' = SortedStrings(ListSplit)
    /\ company_list_extracted' = ListExtracted
    /\ company_ix' = 1
    /\ driver_pc' = "company"
    /\ UNCHANGED <<fvars, pvars, svars, driver_run, ds_pending, cur_data_software, html_pending, calls,
                   invocations, treevars>>

\* line 256, the company has an entry under the output root
SkipCompany ==
    /\ driver_pc = "company"
    /\ company_ix <= Len(company_list)
    /\ CurrentCompany \in company_list_extracted
    /\ company_ix' = company_ix + 1
    /\ UNCHANGED <<fvars, pvars, svars, driver_run, driver_pc, company_list, company_list_extracted,
                   ds_pending, cur_data_software, html_pending, calls,
                   invocations, treevars>>

\* the loop body entered without the test of line 256
EnterCompany_unchecked ==
    /\ driver_pc = "company"
    /\ company_ix <= Len(company_list)
    /\ ds_pending' = ListCompany(CurrentCompany)
    /\ driver_pc' = "entries"
    /\ UNCHANGED <<fvars, pvars, svars, driver_run, company_list, company_list_extracted, company_ix,
                   cur_data_software, html_pending, calls, invocations,
                   treevars>>

\* lines 256-257, the company has none
EnterCompany ==
    /\ driver_pc = "company"
    /\ company_ix <= Len(company_list)
    /\ CurrentCompany \notin company_list_extracted
    /\ ds_pending' = ListCompany(CurrentCompany)
    /\ driver_pc' = "entries"
    /\ UNCHANGED <<fvars, pvars, svars, driver_run, company_list, company_list_extracted, company_ix,
                   cur_data_software, html_pending, calls, invocations,
                   treevars>>

\* lines 257-263: os.listdir yields the next entry, a sub-collection
EnterSubCollection ==
    /\ driver_pc = "entries"
    /\ \E data_software \in ds_pending :
        /\ IsDir(CurrentCompany, data_software)
        /\ ds_pending' = ds_pending \ {data_software}
        /\ cur_data_software' = data_software
        /\ html_pending' = SortedStrings(
               data_software_contents(CurrentCompany, data_software))
    /\ driver_pc' = "files"
    /\ UNCHANGED <<fvars, pvars, svars, driver_run, company_list, company_list_extracted, company_ix, calls,
                   invocations, treevars>>

\* lines 264-269: the next file of the sub-collection
SubCollectionArtifact ==
    /\ driver_pc = "files"
    /\ html_pending # <<>>
    /\ CallMakePredictions(CurrentCompany, cur_data_software,
                           Head(html_pending))
    /\ html_pending' = Tail(html_pending)
    /\ UNCHANGED <<fvars, pvars, svars, driver_run, company_list, company_list_extracted, company_ix,
                   ds_pending, cur_data_software, split_folder>>

\* the sub-collection is exhausted
LeaveSubCollection ==
    /\ driver_pc = "files"
    /\ html_pending = <<>>
    /\ driver_pc' = "entries"
    /\ UNCHANGED <<fvars, pvars, svars, driver_run, company_list, company_list_extracted, company_ix,
                   ds_pending, cur_data_software, html_pending, calls,
                   invocations, treevars>>

\* lines 271-276: os.listdir yields the next entry, a file
FlatArtifact ==
    /\ driver_pc = "entries"
    /\ \E html_file \in ds_pending :
        /\ ~IsDir(CurrentCompany, html_file)
        /\ ds_pending' = ds_pending \ {html_file}
        /\ CallMakePredictions(CurrentCompany, "", html_file)
    /\ UNCHANGED <<fvars, pvars, svars, driver_run, company_list, company_list_extracted, company_ix,
                   cur_data_software, html_pending, split_folder>>

\* the company directory is exhausted
LeaveCompany ==
    /\ driver_pc = "entries"
    /\ ds_pending = {}
    /\ company_ix' = company_ix + 1
    /\ driver_pc' = "company"
    /\ UNCHANGED <<fvars, pvars, svars, driver_run, company_list, company_list_extracted, ds_pending,
                   cur_data_software, html_pending, calls, invocations,
                   treevars>>

\* the `for company` loop is exhausted: produce_predicts returns
ProducePredictsReturn ==
    /\ driver_pc = "company"
    /\ company_ix > Len(company_list)
    /\ driver_pc' = "done"
    /\ UNCHANGED <<fvars, pvars, svars, driver_run, company_list, company_list_extracted, company_ix,
                   ds_pending, cur_data_software, html_pending, calls,
                   invocations, treevars>>

(***************************************************************************)
(* Bounds and inputs of the batch driver                                   *)
(***************************************************************************)
MaxDriverRuns == 2

MaxArtifacts == 2

\* "zoom" has no entry in EXTRACTOR_CHECK
DriverCompanies == {"google", "meta", "zoom"}

\* where Acquisition puts artifacts: <company>/.txt (static),
\* <company>/<link_type>/<n>.txt (paginated)
ArtifactSlots ==
    {[company |-> c, data_software |-> p[1], html_file |-> p[2]] :
        c \in DriverCompanies,
        p \in {<<"", ".txt">>, <<"data", "0.txt">>, <<"data", "1.txt">>}}

\* no anchor / "/jobs/" twice and "jobs/results/" once
ArtifactContents == {"<p>none</p>", "a/jobs/results/1 b/jobs/2"}

SamePath(f, g) ==
    /\ f.company = g.company
    /\ f.data_software = g.data_software
    /\ f.html_file = g.html_file

SplitTrees ==
    {T \in SUBSET {[company |-> a.company, data_software |-> a.data_software,
                    html_file |-> a.html_file, content |-> t] :
                        a \in ArtifactSlots, t \in ArtifactContents} :
        /\ Cardinality(T) <= MaxArtifacts
        /\ \A f, g \in T : SamePath(f, g) => f = g}

\* the output root an earlier run left: a directory with one fragment for
\* each company of `done`
EarlierRun(done) ==
    [dirs  |-> {<<c, "data">> : c \in done},
     files |-> {[company |-> c, data_software |-> "data",
                 file_name |-> FragmentName("0.txt", 0),
                 content |-> <<Tok("marker"), Tok("lbrack"), Tok("rbrack"),
                               Tok("eot")>>] : c \in done}]

Init ==
    /\ FindIdle
    /\ ScrapeIdle
    /\ PostIdle
    /\ driver_run = 1
    /\ split_folder \in SplitTrees
    /\ \E done \in SUBSET DriverCompanies :
           extracted_folder = EarlierRun(done)
    /\ driver_pc = "idle"
    /\ company_list = <<>>
    /\ company_list_extracted = {}
    /\ company_ix = 0
    /\ ds_pending = {}
    /\ cur_data_software = ""
    /\ html_pending = <<>>
    /\ calls = <<>>
    /\ invocations = <<>>

\* produce_predicts has ended, by returning or by an exception, and is
\* run again on the same two roots (scrape_clean_extract.py, --timestamp)
ProducePredictsAgain ==
    /\ driver_pc \in {"done", "raised"}
    /\ driver_run < MaxDriverRuns
    /\ driver_run' = driver_run + 1
    /\ driver_pc' = "idle"
    /\ company_list' = <<>>
    /\ company_list_extracted' = {}
    /\ company_ix' = 0
    /\ ds_pending' = {}
    /\ cur_data_software' = ""
    /\ html_pending' = <<>>
    /\ UNCHANGED <<fvars, pvars, svars, treevars, calls, invocations>>

Next ==
    \/ ProducePredictsAgain
    \/ ProducePredictsStart
    \/ SkipCompany
    \/ EnterCompany
    \/ EnterSubCollection
    \/ SubCollectionArtifact
    \/ LeaveSubCollection
    \/ FlatArtifact
    \/ LeaveCompany
    \/ ProducePredictsReturn

Spec == Init /\ [][Next]_vars

(***************************************************************************)
(* Constants of the Consolidation stage, src/src/constants.py              *)
(***************************************************************************)
LINK_PREPEND ==
    [company \in {"amazon", "apple", "google", "meta"} |->
        CASE company = "amazon" -> "https://www.amazon.jobs/"
          [] company = "apple"  -> "https://jobs.apple.com/"
          [] company = "google" ->
                 "https://www.google.com/about/careers/applications/"
          [] company = "meta"   -> "https://www.metacareers.com/"]

UNITED_STATES_LIST == {"united", "states", "america", "usa", "us"}

\* the source spells one entry with two non-ASCII characters; it is written
\* here as "cote d'ivoire"
COUNTRY_SET ==
    {"afghanistan", "albania", "algeria", "andorra", "angola",
     "antigua and barbuda", "argentina", "armenia", "australia", "austria",
     "azerbaijan", "bahrain", "bangladesh", "barbados", "belarus",
     "belgium", "belize", "benin", "bhutan", "bolivia",
     "bosnia and herzegovina", "botswana", "brazil", "brunei", "bulgaria",
     "burkina faso", "burundi", "cabo verde", "cambodia", "cameroon",
     "canada", "central african republic", "chad", "chile", "china",
     "colombia", "comoros", "congo, democratic republic of the",
     "congo, republic of the", "costa rica", "croatia", "cuba", "cyprus",
     "czech republic", "cote d'ivoire", "denmark", "djibouti", "dominica",
     "dominican republic", "east timor (timor-leste)", "ecuador", "egypt",
     "el salvador", "equatorial guinea", "eritrea", "estonia", "eswatini",
     "ethiopia", "fiji", "finland", "france", "gabon", "georgia",
     "germany", "ghana", "greece", "grenada", "guatemala", "guinea",
     "guinea-bissau", "guyana", "haiti", "honduras", "hungary", "iceland",
     "india", "indonesia", "iran", "iraq", "ireland", "israel", "italy",
     "jamaica", "japan", "jordan", "kazakhstan", "kenya", "kiribati",
     "korea, north", "korea, south", "kosovo", "kuwait", "kyrgyzstan",
     "laos", "latvia", "lebanon", "lesotho", "liberia", "libya",
     "liechtenstein", "lithuania", "luxembourg", "madagascar", "malawi",
     "malaysia", "maldives", "mali", "malta", "marshall islands",
     "mauritania", "mauritius", "mexico",
     "micronesia, federated states of", "moldova", "monaco", "mongolia",
     "montenegro", "morocco", "mozambique", "myanmar (burma)", "namibia",
     "nauru", "nepal", "netherlands", "new zealand", "nicaragua", "niger",
     "nigeria", "north macedonia", "norway", "oman", "pakistan", "palau",
     "panama", "papua new guinea", "paraguay", "peru", "philippines",
     "poland", "portugal", "qatar", "romania", "russia", "rwanda",
     "saint kitts and nevis", "saint lucia",
     "saint vincent and the grenadines", "samoa", "san marino",
     "sao tome and principe", "saudi arabia", "senegal", "serbia",
     "seychelles", "sierra leone", "singapore", "slovakia", "slovenia",
     "solomon islands", "somalia", "south africa", "spain", "sri lanka",
     "sudan", "sudan, south", "suriname", "sweden", "switzerland", "syria",
     "taiwan", "tajikistan", "tanzania", "thailand", "the bahamas",
     "the gambia", "togo", "tonga", "trinidad and tobago", "tunisia",
     "turkey", "turkmenistan", "tuvalu", "uganda", "ukraine",
     "united arab emirates", "united kingdom", "uruguay", "uzbekistan",
     "vanuatu", "vatican city", "venezuela", "vietnam", "yemen", "zambia",
     "zimbabwe"}

(***************************************************************************)
(* str.lower                                                               *)
(***************************************************************************)
UpperCase == "ABCDEFGHIJKLMNOPQRSTUVWXYZ"
LowerCase == "abcdefghijklmnopqrstuvwxyz"

LowerChar(ch) ==
    LET at == {i \in 1..Len(UpperCase) : SubSeq(UpperCase, i, i) = ch}
    IN  IF at = {} THEN ch ELSE SubSeq(LowerCase, Min(at), Min(at))

RECURSIVE Lower(_)
Lower(s) ==
    IF s = "" THEN ""
    ELSE LowerChar(Slice(s, 0, 1)) \o Lower(Slice(s, 1, Len(s)))

(***************************************************************************)
(* pandas                                                                  *)
(***************************************************************************)
\* the missing value of a cell
NaN == "<NaN>"

\* pd.isna
IsNa(v) == v = NaN

\* a cell that json parsed as a number
Number == "<number>"

\* isinstance(v, str)
IsText(v) == v \notin {NaN, Number}

DF(columns, rows) == [is_none |-> FALSE, columns |-> columns, rows |-> rows]

\* a row widened to `columns`, absent cells missing
Reindex(row, columns) ==
    [c \in columns |-> IF c \in DOMAIN row THEN row[c] ELSE NaN]

\* pd.DataFrame(list): a column per key when the list holds dicts, the one
\* column 0 when its first element is a number
DataFrame(cur_json) ==
    LET dicts == [i \in 1..Len(cur_json) |->
                    IF Head(cur_json).t = "dict" THEN cur_json[i].d
                    ELSE [c \in {"0"} |-> IF cur_json[i].t = "dict"
                                           THEN "{}" ELSE "1"]]
        columns == UNION {DOMAIN dicts[i] : i \in 1..Len(dicts)}
    IN  DF(columns, [i \in 1..Len(dicts) |-> Reindex(dicts[i], columns)])

\* pd.DataFrame(list) reads the keys of every element when the first one is
\* a dict: AttributeError on a number
DataFrameRaises(cur_json) ==
    /\ cur_json # <<>>
    /\ Head(cur_json).t = "dict"
    /\ \E i \in 1..Len(cur_json) : cur_json[i].t # "dict"

\* df[column] = value
SetColumn(df, column, value) ==
    DF(df.columns \cup {column},
       [i \in 1..Len(df.rows) |->
           [c \in df.columns \cup {column} |->
               IF c = column THEN value ELSE df.rows[i][c]]])

\* pd.concat([a, b], ignore_index=True)
Concat(a, b) ==
    LET columns == a.columns \cup b.columns
    IN  DF(columns,
           [i \in 1..(Len(a.rows) + Len(b.rows)) |->
               IF i <= Len(a.rows) THEN Reindex(a.rows[i], columns)
               ELSE Reindex(b.rows[i - Len(a.rows)], columns)])

\* df.drop_duplicates(): the first of equal rows stays
RECURSIVE DropDuplicates(_)
DropDuplicates(rows) ==
    IF rows = <<>> THEN <<>>
    ELSE LET init == DropDuplicates(SubSeq(rows, 1, Len(rows) - 1))
             last == rows[Len(rows)]
         IN  IF \E i \in 1..Len(init) : init[i] = last THEN init
             ELSE Append(init, last)

(***************************************************************************)
(* post_extraction_cleaner: parsing one fragment                           *)
(***************************************************************************)
\* process_file_read_txt
process_file_read_txt(text) ==
    ReplaceQuotes(RemoveKind(RemoveKind(text, "marker"), "eot"))

\* read_dict_from_txt: [raised, data].  json.loads accepts "[" elements "]";
\* it raises RecursionError, which line 140 does not catch, on brackets
\* nested deeper than the recursion limit, and JSONDecodeError otherwise.
read_dict_from_txt(content) ==
    LET starts == content # <<>> /\ Head(content).t \in {"lbrack", "deep"}
        ends   == content # <<>> /\ content[Len(content)].t = "rbrack"
        middle == SubSeq(content, 2, Len(content) - 1)
    IN  IF ~(starts /\ ends /\ TextLen(content) > 10)
        THEN [raised |-> "", data |-> <<>>]
        ELSE IF Head(content).t = "deep"
        THEN [raised |-> "RecursionError", data |-> <<>>]
        ELSE IF \E i \in 1..Len(middle) : middle[i].t \notin {"dict", "scalar"}
        THEN [raised |-> "", data |-> <<>>]     \* JSONDecodeError
        ELSE [raised |-> "", data |-> middle]

\* extract_json_to_df on the text of one file: [raised, master_df]
extract_json_to_df(df, text, company_name) ==
    LET cur_json == read_dict_from_txt(process_file_read_txt(text))
        cur_df   == SetColumn(DataFrame(cur_json.data), "company",
                              company_name)
    IN  IF cur_json.raised # "" \/ DataFrameRaises(cur_json.data)
        THEN [raised |-> IF cur_json.raised # "" THEN cur_json.raised
                         ELSE "AttributeError",
              master_df |-> df]
        ELSE [raised |-> "",
              master_df |-> IF df.is_none THEN cur_df ELSE Concat(df, cur_df)]

\* extract_json_to_df on the files of `names`, in that order
RECURSIVE ExtractAll(_, _, _, _, _)
ExtractAll(df, files, company, data_software, names) ==
    IF names = <<>> THEN [raised |-> "", master_df |-> df]
    ELSE LET f == CHOOSE g \in files :
                     /\ g.company = company
                     /\ g.data_software = data_software
                     /\ g.file_name = Head(names)
             r == extract_json_to_df(df, f.content, company)
         IN  IF r.raised # "" THEN r
             ELSE ExtractAll(r.master_df, files, company, data_software,
                             Tail(names))

(***************************************************************************)
(* post_extraction_cleaner: the steps on master_df                         *)
(***************************************************************************)
CanonicalColumns ==
    {"company", "Job Title", "Job Location", "Job ID", "Job Link"}

\* lines 210-216, rename
Renamed(r) ==
    [company_name |-> r["company"], job_title |-> r["Job Title"],
     location |-> r["Job Location"], job_id |-> r["Job ID"],
     job_link |-> r["Job Link"]]

\* line 220
NeedsPrefix(r) == ~Contains("http", r.job_link)

\* lines 218-225, one row: the rows it leaves (one or none)
RepairLink(r) ==
    IF NeedsPrefix(r)
    THEN IF r.company_name \in DOMAIN LINK_PREPEND
         THEN <<[r EXCEPT !.job_link = LINK_PREPEND[r.company_name] \o @]>>
         ELSE <<>>
    ELSE <<r>>

\* lines 218-225, the loop and the drop
RECURSIVE RepairLinks(_)
RepairLinks(rows) ==
    IF rows = <<>> THEN <<>>
    ELSE RepairLink(Head(rows)) \o RepairLinks(Tail(rows))

\* lines 209-217: the rows the repair loop iterates over
UniqueRows(df) ==
    LET selected == [i \in 1..Len(df.rows) |->
                        Reindex(df.rows[i], CanonicalColumns)]
        linked   == SelectSeq(selected, LAMBDA r : ~IsNa(r["Job Link"]))
        renamed  == [i \in 1..Len(linked) |-> Renamed(linked[i])]
    IN  DropDuplicates(renamed)

\* process_master_df: [raised, master_df]
process_master_df(df) ==
    IF df.is_none \/ ~(CanonicalColumns \subseteq df.columns)
    THEN [raised |-> IF df.is_none THEN "TypeError" ELSE "KeyError",
          master_df |-> df]                                  \* line 209
    ELSE IF \E i \in 1..Len(UniqueRows(df)) :
                UniqueRows(df)[i].job_link = Number
    THEN \* `'http' not in r['job_link']` raises TypeError, line 220
         [raised |-> "TypeError", master_df |-> df]
    ELSE [raised |-> "",
          master_df |-> DF({"company_name", "job_title", "location",
                            "job_id", "job_link"},
                           RepairLinks(UniqueRows(df)))]

\* line 277: rows whose title does not hold 'technician' (case=False,
\* na=False)
Relevant(df) ==
    SelectSeq(df.rows,
              LAMBDA r : ~(/\ ~IsNa(r.job_title)
                           /\ Contains("technician", Lower(r.job_title))))

\* remove_old_n_irrelevant_roles without lines 278-279
remove_old_n_irrelevant_roles_nohistory(df, database) ==
    [raised |-> "", master_df |-> DF(df.columns, Relevant(df))]

\* remove_old_n_irrelevant_roles: [raised, master_df]; a store read back
\* without a job_link column raises KeyError at line 279
remove_old_n_irrelevant_roles(df, database) ==
    LET old == {database.rows[i].job_link : i \in 1..Len(database.rows)}
    IN  IF database.is_none
        THEN [raised |-> "", master_df |-> DF(df.columns, Relevant(df))]
        ELSE IF "job_link" \notin database.columns
        THEN [raised |-> "KeyError",
              master_df |-> DF(df.columns, Relevant(df))]
        ELSE [raised |-> "",
              master_df |-> DF(df.columns,
                               SelectSeq(Relevant(df),
                                         LAMBDA r : r.job_link \notin old))]

\* location_check_helper without .lower() at line 253
location_check_helper_cased(row, location_mask) ==
    IF \E country \in COUNTRY_SET : Contains(country, row.location)
    THEN Append(SubSeq(location_mask, 1, Len(location_mask) - 1), FALSE)
    ELSE location_mask

\* location_check_helper: the mask with its last entry made False when the
\* lower-cased location holds a country name
location_check_helper(row, location_mask) ==
    LET location == Lower(row.location)
    IN  IF \E country \in COUNTRY_SET : Contains(country, location)
        THEN Append(SubSeq(location_mask, 1, Len(location_mask) - 1), FALSE)
        ELSE location_mask

\* lines 264-267 for the first k rows: the mask
RECURSIVE location_mask_loop(_, _)
location_mask_loop(rows, k) ==
    IF k = 0 THEN <<>>
    ELSE location_check_helper(
             rows[k], Append(location_mask_loop(rows, k - 1), TRUE))

\* df[mask]
RECURSIVE Masked(_, _)
Masked(rows, mask) ==
    IF rows = <<>> THEN <<>>
    ELSE (IF Head(mask) THEN <<Head(rows)>> ELSE <<>>)
         \o Masked(Tail(rows), Tail(mask))

\* drop_non_us_jobs: [raised, master_df]; .lower() of a location that is
\* missing or a number raises AttributeError
drop_non_us_jobs(df) ==
    IF \E i \in 1..Len(df.rows) : ~IsText(df.rows[i].location)
    THEN [raised |-> "AttributeError", master_df |-> df]
    ELSE LET location_mask == location_mask_loop(df.rows, Len(df.rows))
         IN  [raised |-> "",
              master_df |->
                  IF location_mask = <<>>
                  THEN DF({}, <<>>)    \* df[[]] selects no column
                  ELSE DF(df.columns, Masked(df.rows, location_mask))]

\* lines 233-236: `change` after the keyword loop
location_change(row) ==
    LET location == Lower(row.location)
    IN  ~\E keyword \in UNITED_STATES_LIST : Contains(keyword, location)

\* clean_location_field
clean_location_field(df) ==
    DF(df.columns,
       [ix \in 1..Len(df.rows) |->
           IF location_change(df.rows[ix])
           THEN [df.rows[ix] EXCEPT !.location = ""]
           ELSE df.rows[ix]])

(***************************************************************************)
(* post_extraction_cleaner: initialize, get_job_df, initiate_post_process  *)
(***************************************************************************)
\* os.listdir(extracted_folder_path / company)
ListExtractedCompany(company) ==
    {d[2] : d \in {e \in extracted_folder.dirs :
                       e[1] = company /\ e[2] # ""}}
    \cup {f.file_name : f \in {g \in extracted_folder.files :
                                  g.company = company
                                  /\ g.data_software = ""}}

\* os.listdir(extracted_folder_path / company / data_software)
ListFragments(company, data_software) ==
    {f.file_name : f \in {g \in extracted_folder.files :
                             g.company = company
                             /\ g.data_software = data_software}}

\* post_extraction_cleaner() and initialize(...), then the first line of
\* initiate_post_process
Initialize ==
    /\ post_pc = "new"
    /\ master_df' = NoneDF
    /\ job_database_df' = job_database_file
    /\ gj_companies' = ListExtracted
    /\ gj_company' = ""
    /\ gj_entries' = {}
    /\ post_pc' = "get_job_df"
    /\ UNCHANGED <<fvars, svars, dvars, treevars, post_error, post_run, master_df_file,
                   job_database_file>>

\* line 183: os.listdir yields the next company
GetJobDfCompany ==
    /\ post_pc = "get_job_df"
    /\ \E company \in gj_companies :
        /\ gj_companies' = gj_companies \ {company}
        /\ gj_company' = company
        /\ gj_entries' = ListExtractedCompany(company)
    /\ post_pc' = "get_job_df_inner"
    /\ UNCHANGED <<fvars, svars, dvars, treevars, post_error, post_run, master_df,
                   job_database_df, master_df_file, job_database_file>>

\* lines 184-197: os.listdir yields the next entry of the company; a
\* directory that is neither data nor software is opened as a file, which
\* raises IsADirectoryError
GetJobDfEntry ==
    /\ post_pc = "get_job_df_inner"
    /\ \E data_software \in gj_entries :
        LET r == IF data_software \in {"data", "software"}
                 THEN ExtractAll(master_df, extracted_folder.files,
                                 gj_company, data_software,
                                 SortedStrings(ListFragments(gj_company,
                                                             data_software)))
                 ELSE IF <<gj_company, data_software>>
                             \in extracted_folder.dirs
                 THEN [raised |-> "IsADirectoryError",
                       master_df |-> master_df]
                 ELSE ExtractAll(master_df, extracted_folder.files,
                                 gj_company, "", <<data_software>>)
        IN  /\ gj_entries' = gj_entries \ {data_software}
            /\ master_df' = r.master_df
            /\ post_pc' = IF r.raised # "" THEN "raised" ELSE post_pc
            /\ post_error' = r.raised
    /\ UNCHANGED <<fvars, svars, dvars, treevars, post_run, job_database_df,
                   master_df_file, job_database_file, gj_companies,
                   gj_company>>

\* the company directory is exhausted
GetJobDfLeaveCompany ==
    /\ post_pc = "get_job_df_inner"
    /\ gj_entries = {}
    /\ post_pc' = "get_job_df"
    /\ UNCHANGED <<fvars, svars, dvars, treevars, post_error, post_run, master_df,
                   job_database_df, master_df_file, job_database_file,
                   gj_companies, gj_company, gj_entries>>

\* get_job_df returns
GetJobDfReturn ==
    /\ post_pc = "get_job_df"
    /\ gj_companies = {}
    /\ post_pc' = "process_master_df"
    /\ UNCHANGED <<fvars, svars, dvars, treevars, post_error, post_run, master_df,
                   job_database_df, master_df_file, job_database_file,
                   gj_companies, gj_company, gj_entries>>

ProcessMasterDf ==
    /\ post_pc = "process_master_df"
    /\ LET r == process_master_df(master_df)
       IN  /\ master_df' = r.master_df
           /\ post_pc' = IF r.raised # "" THEN "raised"
                         ELSE "remove_old_n_irrelevant_roles"
           /\ post_error' = r.raised
    /\ UNCHANGED <<fvars, svars, dvars, treevars, post_run, job_database_df,
                   master_df_file, job_database_file, gj_companies,
                   gj_company, gj_entries>>

RemoveOldNIrrelevantRoles ==
    /\ post_pc = "remove_old_n_irrelevant_roles"
    /\ LET r == remove_old_n_irrelevant_roles(master_df, job_database_df)
       IN  /\ master_df' = r.master_df
           /\ post_pc' = IF r.raised # "" THEN "raised" ELSE "drop_non_us_jobs"
           /\ post_error' = r.raised
    /\ UNCHANGED <<fvars, svars, dvars, treevars, post_run, job_database_df,
                   master_df_file, job_database_file, gj_companies,
                   gj_company, gj_entries>>

DropNonUsJobs ==
    /\ post_pc = "drop_non_us_jobs"
    /\ LET r == drop_non_us_jobs(master_df)
       IN  /\ master_df' = r.master_df
           /\ post_pc' = IF r.raised # "" THEN "raised"
                         ELSE "clean_location_field"
           /\ post_error' = r.raised
    /\ UNCHANGED <<fvars, svars, dvars, treevars, post_run, job_database_df,
                   master_df_file, job_database_file, gj_companies,
                   gj_company, gj_entries>>

CleanLocationField ==
    /\ post_pc = "clean_location_field"
    /\ master_df' = clean_location_field(master_df)
    /\ post_pc' = "save_master_df"
    /\ UNCHANGED <<fvars, svars, dvars, treevars, post_error, post_run, job_database_df,
                   master_df_file, job_database_file, gj_companies,
                   gj_company, gj_entries>>

\* save_files without the else of lines 289-290
save_files_database_noelse(df, database) ==
    IF database.is_none THEN database ELSE Concat(database, df)

\* save_files, lines 286-291
save_files_database(df, database) ==
    IF database.is_none THEN df ELSE Concat(database, df)

\* save_files, line 286: the run output is written
SaveMasterDf ==
    /\ post_pc = "save_master_df"
    /\ master_df_file' = master_df
    /\ post_pc' = "save_files"
    /\ UNCHANGED <<fvars, svars, dvars, treevars, post_error, post_run,
                   master_df, job_database_df, job_database_file,
                   gj_companies, gj_company, gj_entries>>

\* save_files with the store written as line 286 writes the output
SaveFiles_overwrite ==
    /\ post_pc = "save_files"
    /\ job_database_df' = master_df
    /\ job_database_file' = job_database_df'
    /\ post_pc' = "done"
    /\ UNCHANGED <<fvars, svars, dvars, treevars, post_error, post_run,
                   master_df, master_df_file, gj_companies, gj_company,
                   gj_entries>>

\* save_files, lines 287-291: the store is extended and written
SaveFiles ==
    /\ post_pc = "save_files"
    /\ job_database_df' = save_files_database(master_df, job_database_df)
    /\ job_database_file' = job_database_df'
    /\ post_pc' = "done"
    /\ UNCHANGED <<fvars, svars, dvars, treevars, post_error, post_run,
                   master_df, master_df_file, gj_companies, gj_company,
                   gj_entries>>

(***************************************************************************)
(* Bounds and inputs of Consolidation                                      *)
(***************************************************************************)
MaxFragments == 2
MaxRuns == 2

\* the pipeline is run again on the same paths: a new process, a new
\* post_extraction_cleaner (lines 39-43)
RunAgain ==
    /\ post_pc = "done"
    /\ post_run < MaxRuns
    /\ post_run' = post_run + 1
    /\ post_pc' = "new"
    /\ master_df' = NoneDF
    /\ job_database_df' = NoneDF
    /\ UNCHANGED <<fvars, svars, dvars, treevars, post_error, master_df_file,
                   job_database_file, gj_companies, gj_company, gj_entries>>

Job(title, location, id, link) ==
    [k \in {"Job Title", "Job Location", "Job ID", "Job Link"} |->
        CASE k = "Job Title"    -> title
          [] k = "Job Location" -> location
          [] k = "Job ID"       -> id
          [] k = "Job Link"     -> link]

JobRelative == Job("Data Engineer", "New York, United States", "1", "12345")
JobAbsolute == Job("Data Engineer", "New York, United States", "1",
                   "https://www.amazon.jobs/12345")
JobRetitled == Job("Senior Data Engineer", "New York, United States", "1",
                   "12345")
JobBerlin   == Job("Analyst", "Berlin, Germany", "2", "https://example.com/2")
JobRemote   == Job("Analyst", "Remote", "3", "https://example.com/3")
JobHttpPath == Job("Analyst", "Austin, TX", "4", "jobs/http-engineer")
JobNoLink   == Job("Analyst", "Remote", "5", "")
JobTechnician == Job("Lab Technician", "New York, United States", "6",
                     "https://example.com/6")

\* a record without "Job Location"
JobNoLocation ==
    [k \in {"Job Title", "Job ID", "Job Link"} |->
        CASE k = "Job Title" -> "Analyst"
          [] k = "Job ID"    -> "7"
          [] k = "Job Link"  -> "https://example.com/7"]
\* a record whose link is a number
JobNumberLink == Job("Analyst", "Remote", "8", Number)

JobPool == {JobRelative, JobAbsolute, JobRetitled, JobBerlin, JobRemote,
            JobHttpPath, JobNoLink, JobTechnician, JobNoLocation,
            JobNumberLink}

Response(body) == <<Tok("marker")>> \o body \o <<Tok("eot")>>
JsonList(elements) == <<Tok("lbrack")>> \o elements \o <<Tok("rbrack")>>

\* fragments that parse to records
ParseableFragments ==
    {Response(JsonList(<<Dict(j)>>)) : j \in JobPool}
    \cup {Response(JsonList(<<SDict(JobRelative)>>)),
          Response(JsonList(<<Dict(JobRelative), Dict(JobRemote)>>))}

\* fragments that do not: prose, a list cut off before its "]", an
\* apostrophe inside a value, a list of a number, a list of numbers, an
\* empty list, brackets nested beyond the recursion limit
MalformedFragments ==
    {Response(<<Prose("no jobs found")>>),
     <<Tok("marker"), Tok("lbrack"), Dict(JobRelative)>>,
     Response(JsonList(<<ADict(JobRelative)>>)),
     Response(JsonList(<<Tok("scalar")>>)),
     Response(JsonList(<<Tok("scalar"), Tok("scalar"), Tok("scalar"),
                         Tok("scalar")>>)),
     Response(JsonList(<<>>)),
     Response(<<Tok("deep"), Tok("rbrack")>>)}

FragmentPool == ParseableFragments \cup MalformedFragments

FragmentPaths ==
    {[company |-> "amazon", data_software |-> "data",
      file_name |-> FragmentName("0.txt", 0)],
     [company |-> "amazon", data_software |-> "data",
      file_name |-> FragmentName("0.txt", 1)],
     [company |-> "lyft", data_software |-> "data",
      file_name |-> FragmentName("0.txt", 0)]}

\* the trees the batch driver can leave: each file inside its directory
ExtractedTrees ==
    {[dirs  |-> {<<q.company, q.data_software>> : q \in DOMAIN text},
      files |-> {[company |-> q.company, data_software |-> q.data_software,
                  file_name |-> q.file_name, content |-> text[q]] :
                    q \in DOMAIN text}] :
        text \in UNION {[P -> FragmentPool] :
                          P \in {Q \in SUBSET FragmentPaths :
                                    Cardinality(Q) <= MaxFragments}}}

\* the store before the first run: absent, or holding one record whose link
\* is the repaired link of JobRelative at amazon
InitialStores ==
    {NoneDF,
     DF({"company_name", "job_title", "location", "job_id", "job_link"},
        <<[company_name |-> "amazon", job_title |-> "Data Engineer II",
           location |-> "New York, United States", job_id |-> "1",
           job_link |-> "https://www.amazon.jobs/12345"]>>)}

InitPost ==
    /\ FindIdle
    /\ ScrapeIdle
    /\ DriverIdle
    /\ extracted_folder \in ExtractedTrees
    /\ job_database_file \in InitialStores
    /\ post_pc = "new"
    /\ post_error = ""
    /\ post_run = 1
    /\ master_df = NoneDF
    /\ job_database_df = NoneDF
    /\ master_df_file = NoneDF
    /\ gj_companies = {}
    /\ gj_company = ""
    /\ gj_entries = {}

NextPost ==
    \/ Initialize
    \/ GetJobDfCompany
    \/ GetJobDfEntry
    \/ GetJobDfLeaveCompany
    \/ GetJobDfReturn
    \/ ProcessMasterDf
    \/ RemoveOldNIrrelevantRoles
    \/ DropNonUsJobs
    \/ CleanLocationField
    \/ SaveMasterDf
    \/ SaveFiles
    \/ RunAgain

SpecPost == InitPost /\ [][NextPost]_vars

(***************************************************************************)
(* Bounds of the find_substring inputs                                     *)
(***************************************************************************)
MaxTextLen == 5
MaxAnchorLen == 2
Alphabet == {"a", "b"}

RECURSIVE StringsOfLen(_)
StringsOfLen(n) ==
    IF n = 0 THEN {""}
    ELSE {s \o ch : s \in StringsOfLen(n - 1), ch \in Alphabet}

StringsUpTo(n) == UNION {StringsOfLen(k) : k \in 0..n}

InitFind ==
    /\ fs_string \in StringsUpTo(MaxTextLen)
    /\ fs_substring \in StringsUpTo(MaxAnchorLen) \ {""}
    /\ return_pos = <<>>
    /\ fs_pc = "ready"
    /\ ScrapeIdle
    /\ DriverIdle
    /\ PostIdle
    /\ extracted_folder = EarlierRun({})

CallFindSubstring ==
    /\ fs_pc = "ready"
    /\ return_pos' = find_substring(fs_substring, fs_string)
    /\ fs_pc' = "done"
    /\ UNCHANGED <<fs_substring, fs_string, treevars, svars, dvars, pvars>>

NextFind == CallFindSubstring

SpecFind == InitFind /\ [][NextFind]_vars

(***************************************************************************)
(* career_page_scraper.scrape and the strategies of utils.py               *)
(***************************************************************************)
\* sep.join(pieces)
RECURSIVE Join(_, _)
Join(pieces, sep) ==
    IF Len(pieces) = 1 THEN pieces[1]
    ELSE pieces[1] \o sep \o Join(Tail(pieces), sep)

\* s.replace(old, new) for a non-empty old: every occurrence, left to right
Replace(s, old, new) == Join(split(s, old), new)

\* f"{v}" of a cell of the configuration
Str(v) == IF IsNa(v) THEN "nan" ELSE v

\* line 133: the number put into the URL of page n
page_number(n, multiplier) ==
    IF multiplier > 1 THEN n * multiplier ELSE n + 1

\* line 133 with n + 1 for every multiplier
base_url_ext_plus1(base_url, page_identifier, n, multiplier) ==
    Replace(base_url, Str(page_identifier),
            Str(page_identifier) \o ToString(n + 1))

\* line 133
base_url_ext(base_url, page_identifier, n, multiplier) ==
    Replace(base_url, Str(page_identifier),
            Str(page_identifier) \o ToString(page_number(n, multiplier)))

\* an empty cell of the columns num_pages and mulriplier, which pd.read_csv
\* reads as the float nan: no count and no multiplier equals it
NaNCount == -1

\* lines 136, 145, 154: the branch scrape takes for a row
Strategy(r) ==
    IF r.link_identifier = "scroll" THEN "scroll"
    ELSE IF IsNa(r.link_type) THEN "static"
    ELSE "paginated"

\* page.content() after a fetch of url
PageContent(url) == "<html>" \o url

\* u.save_html: open(path, 'w') replaces a file of the same path
save_html(tree, company, data_software, html_file, html_data) ==
    LET new == [company |-> company, data_software |-> data_software,
                html_file |-> html_file, content |-> html_data]
    IN  {f \in tree : ~SamePath(f, new)} \cup {new}

CurrentRow == scraping_info_df[row_ix]

\* lines 137-143 and scrape_scroll_wi_chromium.  The fetch may fail in
\* page.goto (line 193, outside the try), while scrolling (lines 196-201,
\* inside it) or in page.content (line 207, outside it).
ScrapeScroll ==
    /\ scrape_pc = "rows"
    /\ row_ix <= Len(scraping_info_df)
    /\ Strategy(CurrentRow) = "scroll"
    /\ \E outcome \in {"ok", "goto", "scroll", "content"} :
        /\ fetched' = Append(fetched, [row |-> row_ix, n |-> 0,
                                       url |-> CurrentRow.link,
                                       outcome |-> outcome])
        /\ IF outcome \in {"goto", "content"}
           THEN /\ scrape_pc' = "raised"
                /\ UNCHANGED <<row_ix, written, split_folder>>
           ELSE /\ split_folder' =
                     save_html(split_folder, CurrentRow.company,
                               Str(CurrentRow.link_type), ".txt",
                               PageContent(CurrentRow.link))
                /\ written' = Append(written,
                       [row |-> row_ix, n |-> 0,
                        company |-> CurrentRow.company,
                        data_software |-> Str(CurrentRow.link_type),
                        html_file |-> ".txt"])
                /\ row_ix' = row_ix + 1
                /\ UNCHANGED scrape_pc
    /\ UNCHANGED <<fvars, dvars, pvars, extracted_folder, scraping_info_df,
                   page_n>>

\* lines 146-153 and scrape_static_wi_chromium: the whole fetch is inside
\* the try of lines 160-174
ScrapeStatic ==
    /\ scrape_pc = "rows"
    /\ row_ix <= Len(scraping_info_df)
    /\ Strategy(CurrentRow) = "static"
    /\ \E outcome \in {"ok", "error"} :
        /\ fetched' = Append(fetched, [row |-> row_ix, n |-> 0,
                                       url |-> CurrentRow.link,
                                       outcome |-> outcome])
        /\ IF outcome = "ok"
           THEN /\ split_folder' =
                     save_html(split_folder, CurrentRow.company, "", ".txt",
                               PageContent(CurrentRow.link))
                /\ written' = Append(written,
                       [row |-> row_ix, n |-> 0,
                        company |-> CurrentRow.company,
                        data_software |-> "", html_file |-> ".txt"])
           ELSE UNCHANGED <<written, split_folder>>
    /\ row_ix' = row_ix + 1
    /\ UNCHANGED <<fvars, dvars, pvars, extracted_folder, scraping_info_df,
                   scrape_pc, page_n>>

\* lines 155-162, 89-96 and 125-128: the paginated strategy is entered;
\* int() of an empty num_pages or mulriplier cell raises ValueError (lines
\* 93 and 95), which nothing catches
ScrapeLinkManuStart ==
    /\ scrape_pc = "rows"
    /\ row_ix <= Len(scraping_info_df)
    /\ Strategy(CurrentRow) = "paginated"
    /\ scrape_pc' = IF \/ CurrentRow.num_pages = NaNCount
                       \/ CurrentRow.mulriplier = NaNCount
                    THEN "ValueError" ELSE "pages"
    /\ page_n' = 0
    /\ UNCHANGED <<fvars, dvars, pvars, treevars, scraping_info_df, row_ix,
                   fetched, written>>

\* lines 131-142, one pass of the loop: the page is fetched and saved, or
\* the fetch fails and the except of line 141 prints
ScrapePage(n, outcome) ==
    LET url == base_url_ext(CurrentRow.link, CurrentRow.page_identifier,
                            n, CurrentRow.mulriplier)
    IN  /\ fetched' = Append(fetched, [row |-> row_ix, n |-> n, url |-> url,
                                       outcome |-> outcome])
        /\ IF outcome = "ok"
           THEN /\ split_folder' =
                     save_html(split_folder, CurrentRow.company,
                               Str(CurrentRow.link_type),
                               ToString(n) \o ".txt", PageContent(url))
                /\ written' = Append(written,
                       [row |-> row_ix, n |-> n,
                        company |-> CurrentRow.company,
                        data_software |-> Str(CurrentRow.link_type),
                        html_file |-> ToString(n) \o ".txt"])
           ELSE UNCHANGED <<written, split_folder>>

\* the loop with a `break` in the except of line 141
ScrapeLinkManuPage_break ==
    /\ scrape_pc = "pages"
    /\ page_n < CurrentRow.num_pages
    /\ \E outcome \in {"ok", "error"} :
        /\ ScrapePage(page_n, outcome)
        /\ page_n' = IF outcome = "ok" THEN page_n + 1
                     ELSE CurrentRow.num_pages
    /\ UNCHANGED <<fvars, dvars, pvars, extracted_folder, scraping_info_df,
                   scrape_pc, row_ix>>

\* lines 130-142: `for n in range(num_pages)`
ScrapeLinkManuPage ==
    /\ scrape_pc = "pages"
    /\ page_n < CurrentRow.num_pages
    /\ \E outcome \in {"ok", "error"} : ScrapePage(page_n, outcome)
    /\ page_n' = page_n + 1
    /\ UNCHANGED <<fvars, dvars, pvars, extracted_folder, scraping_info_df,
                   scrape_pc, row_ix>>

\* lines 143-144: the loop is exhausted, the strategy returns
ScrapeLinkManuReturn ==
    /\ scrape_pc = "pages"
    /\ page_n >= CurrentRow.num_pages
    /\ scrape_pc' = "rows"
    /\ row_ix' = row_ix + 1
    /\ UNCHANGED <<fvars, dvars, pvars, treevars, scraping_info_df, page_n,
                   fetched, written>>

\* line 134: iterrows is exhausted, scrape returns
ScrapeReturn ==
    /\ scrape_pc = "rows"
    /\ row_ix > Len(scraping_info_df)
    /\ scrape_pc' = "done"
    /\ UNCHANGED <<fvars, dvars, pvars, treevars, scraping_info_df, row_ix,
                   page_n, fetched, written>>

(***************************************************************************)
(* Bounds and inputs of Acquisition                                        *)
(***************************************************************************)
MaxDescriptors == 2

\* one row of the configuration file (the column is spelled `mulriplier`)
Descriptor(company, link, link_identifier, link_type, page_identifier, num_pages, mulriplier) ==
    [company |-> company, link |-> link,
     link_identifier |-> link_identifier, link_type |-> link_type,
     page_identifier |-> page_identifier, num_pages |-> num_pages,
     mulriplier |-> mulriplier]

ScrollMeta ==
    Descriptor("meta", "https://m.co/jobs", "scroll", "data", NaN, NaNCount,
               NaNCount)
StaticGoogle ==
    Descriptor("google", "https://g.co/jobs", NaN, NaN, NaN, NaNCount,
               NaNCount)
\* pages 1, 2
PagesAmazon ==
    Descriptor("amazon", "https://a.co/jobs?page=", "page", "data",
               "page=", 2, 1)
\* offsets 0, 10; the identifier occurs twice in the link; the same company
\* and link type as PagesAmazon
OffsetsAmazon ==
    Descriptor("amazon", "https://a.co/s?o=&to=", "page", "data",
               "o=", 2, 10)

\* a single page filed under a link type: no page identifier, no page count
TypedLyft ==
    Descriptor("lyft", "https://l.co/jobs", NaN, "data", NaN, NaNCount,
               NaNCount)
\* a page identifier and a page count, no link type
AnchoredZoom ==
    Descriptor("zoom", "https://z.co/jobs?page=", "page", NaN, "page=", 2, 1)

DescriptorPool ==
    {ScrollMeta, StaticGoogle, PagesAmazon, OffsetsAmazon, TypedLyft,
     AnchoredZoom}

Configurations ==
    UNION {[1..k -> DescriptorPool] : k \in 0..MaxDescriptors}

InitScrape ==
    /\ FindIdle
    /\ DriverIdle
    /\ PostIdle
    /\ extracted_folder = EarlierRun({})
    /\ scraping_info_df \in Configurations
    /\ scrape_pc = "rows"
    /\ row_ix = 1
    /\ page_n = 0
    /\ fetched = <<>>
    /\ written = <<>>

NextScrape ==
    \/ ScrapeScroll
    \/ ScrapeStatic
    \/ ScrapeLinkManuStart
    \/ ScrapeLinkManuPage
    \/ ScrapeLinkManuReturn
    \/ ScrapeReturn

SpecScrape == InitScrape /\ [][NextScrape]_vars

(***************************************************************************)
(* scrape_clean_extract.py: Acquisition, then Extraction, then             *)
(* Consolidation, on the folders of one timestamp                          *)
(***************************************************************************)
\* lines 76-81: scrape has returned; the extractor is built on the folder
\* scrape saved into and produce_predicts is called
StartExtractor ==
    /\ scrape_pc = "done"
    /\ driver_pc = "off"
    /\ driver_pc' = "idle"
    /\ driver_run' = 1
    /\ UNCHANGED <<fvars, pvars, svars, treevars, company_list,
                   company_list_extracted, company_ix, ds_pending,
                   cur_data_software, html_pending, calls, invocations>>

\* lines 82-88: produce_predicts has returned; the cleaner is built on the
\* output root and initiate_post_process is called
StartPostProcess ==
    /\ driver_pc = "done"
    /\ post_pc = "off"
    /\ post_pc' = "new"
    /\ post_run' = 1
    /\ UNCHANGED <<fvars, svars, dvars, treevars, post_error, master_df,
                   job_database_df, master_df_file, job_database_file,
                   gj_companies, gj_company, gj_entries>>

\* the page count of the long paginated source
LongPages == 11

\* eleven pages, none of which holds the anchor of amazon
LongAmazon ==
    Descriptor("amazon", "https://a.co/jobs?page=", "page", "data",
               "page=", LongPages, 1)
\* one page under the link type "jobs", holding the anchor of meta
JobsMeta ==
    Descriptor("meta", "https://m.co/jobs/?page=", "page", "jobs",
               "page=", 1, 1)
\* a single page holding the anchor of google
FlatGoogle ==
    Descriptor("google", "https://g.co/jobs/results/", NaN, NaN, NaN,
               NaNCount, NaNCount)

PipelineConfigurations == {<<LongAmazon>>, <<JobsMeta>>, <<FlatGoogle>>}

InitPipeline ==
    /\ FindIdle
    /\ DriverIdle
    /\ PostIdle
    /\ extracted_folder \in {EarlierRun({}), EarlierRun({"google"})}
    /\ scraping_info_df \in PipelineConfigurations
    /\ scrape_pc = "rows"
    /\ row_ix = 1
    /\ page_n = 0
    /\ fetched = <<>>
    /\ written = <<>>

NextPipeline ==
    \/ ScrapeStatic
    \/ ScrapeLinkManuStart
    \/ ScrapeLinkManuPage
    \/ ScrapeLinkManuReturn
    \/ ScrapeReturn
    \/ StartExtractor
    \/ ProducePredictsStart
    \/ SkipCompany
    \/ EnterCompany
    \/ EnterSubCollection
    \/ SubCollectionArtifact
    \/ LeaveSubCollection
    \/ FlatArtifact
    \/ LeaveCompany
    \/ ProducePredictsReturn
    \/ StartPostProcess
    \/ Initialize
    \/ GetJobDfCompany
    \/ GetJobDfEntry
    \/ GetJobDfLeaveCompany
    \/ GetJobDfReturn
    \/ ProcessMasterDf
    \/ RemoveOldNIrrelevantRoles
    \/ DropNonUsJobs
    \/ CleanLocationField
    \/ SaveMasterDf
    \/ SaveFiles

SpecPipeline == InitPipeline /\ [][NextPipeline]_vars

(***************************************************************************)
(* Claims about find_substring                                             *)
(***************************************************************************)
\* the list of the elements of a finite set of integers, increasing
RECURSIVE SortedSeq(_)
SortedSeq(S) ==
    IF S = {} THEN <<>> ELSE <<Min(S)>> \o SortedSeq(S \ {Min(S)})

\* C3: find_substring(A, T) returns exactly the list of all starting offsets
\* at which A occurs in T, in increasing order, overlapping occurrences
\* included.
C3_AllOffsets ==
    fs_pc = "done" => return_pos = SortedSeq(OccursAt(fs_substring, fs_string))

\* C4: every offset o returned by find_substring(A, T) satisfies
\* T[o : o+len(A)] = A, and the returned offsets are strictly increasing.
C4_RoundTrip ==
    fs_pc = "done" =>
        /\ \A i \in 1..Len(return_pos) :
              /\ return_pos[i] \in 0..(Len(fs_string) - Len(fs_substring))
              /\ Slice(fs_string, return_pos[i],
                       return_pos[i] + Len(fs_substring)) = fs_substring
        /\ \A i \in 1..(Len(return_pos) - 1) : return_pos[i] < return_pos[i + 1]

\* C4 witness: a call that returned two offsets, the second not adjacent to
\* the first
C4_Witness ==
    /\ fs_pc = "done"
    /\ Len(return_pos) >= 2
    /\ return_pos[2] > return_pos[1] + Len(fs_substring)
(***************************************************************************)
(* Claims about the batch driver                                           *)
(***************************************************************************)
InvocationsOf(company) ==
    SelectSeq(invocations, LAMBDA v : v.company = company)

FragmentsOf(company) == {f \in extracted_folder.files : f.company = company}

\* C1: a source that has an entry under the output root when produce_predicts
\* starts gets no call of the Extraction Model and no fragment written
\* during that run.  The entries at the start are those the first step
\* reads; no later step of the run touches a source among them.
C1_Resumable ==
    [][/\ driver_pc = "idle" => company_list_extracted' = ListExtracted
       /\ \A c \in company_list_extracted :
             /\ InvocationsOf(c)' = InvocationsOf(c)
             /\ FragmentsOf(c)' = FragmentsOf(c)]_vars

\* C1 witness: the run has returned, a source with an entry at the start has
\* an artifact holding its anchor, and the model was called for another
\* source
C1_Witness ==
    /\ driver_pc = "done"
    /\ invocations # <<>>
    /\ \E f \in split_folder :
          /\ f.company \in company_list_extracted
          /\ f.company \in DOMAIN EXTRACTOR_CHECK
          /\ Contains(EXTRACTOR_CHECK[f.company], f.content)

\* C2: a failure while processing one artifact never aborts the batch: when
\* produce_predicts has ended, call_make_predictions was called for every
\* artifact of every source that had no entry at the start.
C2_Isolation ==
    driver_pc \in {"done", "raised"} =>
        \A f \in split_folder :
            f.company \notin company_list_extracted =>
                \E i \in 1..Len(calls) :
                    /\ calls[i].run = driver_run
                    /\ calls[i].company = f.company
                    /\ calls[i].data_software = f.data_software
                    /\ calls[i].html_file = f.html_file

(***************************************************************************)
(* Consolidation                                                           *)
(***************************************************************************)
\* the link begins with http:// or https://
HasScheme(link) == StartsWith(link, "http://") \/ StartsWith(link, "https://")

C6_Unique ==
    post_pc = "done"
        => \A i, j \in 1..Len(master_df_file.rows) :
              (/\ master_df_file.rows[i].company_name
                      = master_df_file.rows[j].company_name
               /\ master_df_file.rows[i].job_link
                      = master_df_file.rows[j].job_link) => i = j

\* C7: every record of the saved run output has a link that begins with
\* http:// or https://.
C7_LinkScheme ==
    post_pc = "done"
        => \A i \in 1..Len(master_df_file.rows) :
              HasScheme(master_df_file.rows[i].job_link)

\* what C8 says the repair leaves of one record
C8_Repaired(r) ==
    IF HasScheme(r.job_link) THEN <<r>>
    ELSE IF r.company_name \in DOMAIN LINK_PREPEND
    THEN <<[r EXCEPT !.job_link = LINK_PREPEND[r.company_name] \o @]>>
    ELSE <<>>

RECURSIVE C8_RepairedAll(_)
C8_RepairedAll(rows) ==
    IF rows = <<>> THEN <<>>
    ELSE C8_Repaired(Head(rows)) \o C8_RepairedAll(Tail(rows))

\* C8: process_master_df leaves of every record it iterates over: the record
\* with the company's prefix before its link when the link has no scheme and
\* the company has a prefix, nothing when the link has no scheme and the
\* company has none, the record unchanged when the link has a scheme.
C8_LinkRepair ==
    [][(post_pc = "process_master_df" /\ post_pc' # "raised")
          => master_df'.rows = C8_RepairedAll(UniqueRows(master_df))]_vars

\* the two tests of C9 on a location
C9_HasCountry(location) ==
    LET lowered == Lower(location)
    IN  \E country \in COUNTRY_SET : Contains(country, lowered)

C9_HasKeyword(location) ==
    LET lowered == Lower(location)
    IN  \E keyword \in UNITED_STATES_LIST : Contains(keyword, lowered)

\* C9: drop_non_us_jobs drops exactly the records whose lower-cased location
\* holds a country name, and clean_location_field keeps every remaining
\* record, its location unchanged when the lower-cased location holds a
\* United-States keyword and empty otherwise.
C9_Geography ==
    [][/\ (post_pc = "drop_non_us_jobs" /\ post_pc' # "raised")
            => master_df'.rows
                  = SelectSeq(master_df.rows,
                              LAMBDA r : ~C9_HasCountry(r.location))
       /\ post_pc = "clean_location_field"
            => /\ Len(master_df'.rows) = Len(master_df.rows)
               /\ \A i \in 1..Len(master_df.rows) :
                     master_df'.rows[i]
                        = [master_df.rows[i] EXCEPT !.location =
                              IF C9_HasKeyword(@) THEN @ ELSE ""]]_vars

\* the fragments held the records of Berlin, of Remote and of New York; the
\* first is gone, the second is kept with an empty location, the third is
\* kept as it was
C9_Witness ==
    /\ post_pc = "save_files"
    /\ post_run = 1
    /\ \A j \in {JobBerlin, JobRemote, JobRelative} :
          \E f \in extracted_folder.files :
              \E k \in 1..Len(f.content) : f.content[k] = Dict(j)
    /\ ~\E i \in 1..Len(master_df.rows) : master_df.rows[i].job_id = "2"
    /\ \E i \in 1..Len(master_df.rows) :
          master_df.rows[i].job_id = "3" /\ master_df.rows[i].location = ""
    /\ \E i \in 1..Len(master_df.rows) :
          /\ master_df.rows[i].job_id = "1"
          /\ master_df.rows[i].location = "New York, United States"

\* a record C10 calls valid for company c: a title that is kept, a location
\* that is kept, a link that has a scheme or can be given one, and a
\* repaired link no store holds before the first run
C10_Link(c, j) ==
    IF HasScheme(j["Job Link"]) THEN j["Job Link"]
    ELSE LINK_PREPEND[c] \o j["Job Link"]

C10_Valid(c, j) ==
    /\ DOMAIN j = {"Job Title", "Job Location", "Job ID", "Job Link"}
    /\ \A k \in DOMAIN j : IsText(j[k])
    /\ ~Contains("technician", Lower(j["Job Title"]))
    /\ ~C9_HasCountry(j["Job Location"])
    /\ j["Job Link"] # ""
    /\ \/ HasScheme(j["Job Link"])
       \/ c \in DOMAIN LINK_PREPEND /\ ~Contains("http", j["Job Link"])
    /\ \A store \in InitialStores :
           \A i \in 1..Len(store.rows) :
               store.rows[i].job_link # C10_Link(c, j)

\* the record of the run output that C10 expects for j
C10_Record(c, j) ==
    [company_name |-> c, job_title |-> j["Job Title"],
     location |-> IF C9_HasKeyword(j["Job Location"])
                  THEN j["Job Location"] ELSE "",
     job_id |-> j["Job ID"], job_link |-> C10_Link(c, j)]

C11_NeverHalts == post_pc # "raised"

(***************************************************************************)
(* Acquisition: the paginated strategy                                     *)
(***************************************************************************)
\* the fetches of row r, in the order they were made
FetchesOf(r) == SelectSeq(fetched, LAMBDA f : f.row = r)

PaginatedRows ==
    {r \in 1..Len(scraping_info_df) :
        Strategy(scraping_info_df[r]) = "paginated"}

\* row r has been left by the loop of scrape
RowReturned(r) == row_ix > r

\* the number the claim names for page index n and multiplier m
C12_Number(n, m) == IF m > 1 THEN n * m ELSE n + 1

\* the indices 0..N-1 of a paginated row are fetched in increasing order,
\* each once
C12_Indices ==
    \A r \in PaginatedRows :
        /\ \A i \in 1..Len(FetchesOf(r)) : FetchesOf(r)[i].n = i - 1
        /\ RowReturned(r) =>
              Len(FetchesOf(r)) = scraping_info_df[r].num_pages

\* url is template with the token replaced by the number alone
C12_TokenReplaced(url, template, token, number) ==
    url = Join(split(template, token), number)

\* url is template with every occurrence of the token followed by the
\* number: cut at the token, both have the same pieces, but that each
\* piece of url after the first starts with the number
C12_TokenFollowed(url, template, token, number) ==
    LET pu == split(url, token)
        pt == split(template, token)
    IN  /\ Len(pu) = Len(pt)
        /\ pu[1] = pt[1]
        /\ \A i \in 2..Len(pt) : pu[i] = number \o pt[i]

\* C12 as stated: every page navigated by the paginated strategy is the link
\* with the page identifier replaced by n+1 (multiplier 1) or n*multiplier
\* (multiplier above 1), and the indices 0..N-1 are attempted once each in
\* increasing order.
C12_Substituted ==
    /\ C12_Indices
    /\ \A i \in 1..Len(fetched) :
          fetched[i].row \in PaginatedRows =>
             LET r == scraping_info_df[fetched[i].row]
             IN  C12_TokenReplaced(fetched[i].url, r.link, r.page_identifier,
                     ToString(C12_Number(fetched[i].n, r.mulriplier)))

\* C12, amended: every page navigated by the paginated strategy is the link
\* with each occurrence of the page identifier kept and followed by n+1
\* (multiplier 1) or n*multiplier (multiplier above 1), and the indices
\* 0..N-1 are attempted once each in increasing order.
C12_Appended ==
    /\ C12_Indices
    /\ \A i \in 1..Len(fetched) :
          fetched[i].row \in PaginatedRows =>
             LET r == scraping_info_df[fetched[i].row]
             IN  C12_TokenFollowed(fetched[i].url, r.link, r.page_identifier,
                     ToString(C12_Number(fetched[i].n, r.mulriplier)))

\* a paginated row with a multiplier above 1 has been fetched to its last
\* page and left
C12_Witness ==
    \E r \in PaginatedRows :
        /\ scraping_info_df[r].mulriplier > 1
        /\ RowReturned(r)
        /\ Len(FetchesOf(r)) >= 2

(***************************************************************************)
(* Acquisition: failures of a fetch                                        *)
(***************************************************************************)
\* C13: no fetch failure makes scrape raise: after a failed fetch the loop
\* goes on to the remaining rows, so that at the return of scrape every row
\* has been attempted; and every scroll fetch, failed or not, has written
\* its snapshot.
C13_NeverRaises ==
    /\ scrape_pc # "raised"
    /\ scrape_pc = "done" =>
          \A r \in 1..Len(scraping_info_df) : Len(FetchesOf(r)) >= 1
    /\ \A i \in 1..Len(fetched) :
          Strategy(scraping_info_df[fetched[i].row]) = "scroll" =>
             \E k \in 1..Len(written) : written[k].row = fetched[i].row

\* the path of the artifact of page k of row r
ArtifactPath(r, k) ==
    [company |-> scraping_info_df[r].company,
     data_software |-> Str(scraping_info_df[r].link_type),
     html_file |-> ToString(k) \o ".txt"]

\* another paginated row saves into the folder of row r
FolderShared(r) ==
    \E q \in PaginatedRows \ {r} :
        /\ scraping_info_df[q].company = scraping_info_df[r].company
        /\ Str(scraping_info_df[q].link_type) =
              Str(scraping_info_df[r].link_type)

\* one pass of the loop of the paginated strategy: a failed fetch writes
\* nothing, a fetch that succeeded writes the page under its index and
\* touches no other file, and in both cases the loop goes on
C14_Pass ==
    (scrape_pc = "pages" /\ Len(fetched') = Len(fetched) + 1) =>
        LET f == fetched'[Len(fetched')]
            path == ArtifactPath(f.row, f.n)
        IN  /\ f.row = row_ix
            /\ f.n = page_n
            /\ scrape_pc' = "pages"
            /\ row_ix' = row_ix
            /\ page_n' = page_n + 1
            /\ f.outcome # "ok" =>
                  /\ split_folder' = split_folder
                  /\ written' = written
            /\ f.outcome = "ok" =>
                  /\ \E g \in split_folder' :
                        /\ SamePath(g, path)
                        /\ g.content = PageContent(f.url)
                  /\ {g \in split_folder' : ~SamePath(g, path)} =
                        {g \in split_folder : ~SamePath(g, path)}

\* a paginated row: no index is fetched twice; once the row is left every
\* index below the page count has been fetched, the row has written index k
\* exactly when the fetch of k succeeded, and, the folder being that of this
\* row alone, the file of index k exists exactly when the fetch of k
\* succeeded
C14_Row(r) ==
    LET fs == FetchesOf(r)
        N  == scraping_info_df[r].num_pages
        Ok(k) == \E i \in 1..Len(fs) : fs[i].n = k /\ fs[i].outcome = "ok"
    IN  /\ \A i, j \in 1..Len(fs) : fs[i].n = fs[j].n => i = j
        /\ RowReturned(r) =>
              /\ \A k \in 0..(N - 1) : \E i \in 1..Len(fs) : fs[i].n = k
              /\ \A k \in 0..(N - 1) :
                    Ok(k) <=> \E i \in 1..Len(written) :
                                 written[i].row = r /\ written[i].n = k
              /\ ~FolderShared(r) =>
                    \A k \in 0..(N - 1) :
                       Ok(k) <=> \E g \in split_folder :
                                    SamePath(g, ArtifactPath(r, k))

\* C14: in the paginated strategy a failed fetch of page n writes no
\* artifact for n, n is not fetched again, the loop goes on to every later
\* index, and after the loop the artifact of index k exists exactly for the
\* indices whose fetch succeeded.
C14_FailureSkip ==
    [][C14_Pass /\ \A r \in PaginatedRows : C14_Row(r)']_vars

\* a paginated row has been left whose first page failed and whose second
\* page was saved
C14_Witness ==
    \E r \in PaginatedRows :
        /\ RowReturned(r)
        /\ FetchesOf(r)[1].outcome = "error"
        /\ FetchesOf(r)[2].outcome = "ok"
        /\ \E g \in split_folder : SamePath(g, ArtifactPath(r, 1))
        /\ ~\E g \in split_folder : SamePath(g, ArtifactPath(r, 0))

(***************************************************************************)
(* Write-once outputs                                                      *)
(***************************************************************************)
\* the fragment path of an invocation
FragmentPathOf(v) ==
    [company |-> v.company, data_software |-> v.data_software,
     file_name |-> FragmentName(v.html_file, v.ix)]

\* C18: within one run no artifact path is written twice, whatever the
\* configuration (two rows of one company and link type included), and no
\* fragment path is written twice: the fragments of distinct (company,
\* sub-collection, artifact, window index) have distinct paths.
C18_WriteOnce ==
    /\ \A i, j \in 1..Len(written) :
          SamePath(written[i], written[j]) => i = j
    /\ \A i, j \in 1..Len(invocations) :
          (/\ invocations[i].run = invocations[j].run
           /\ FragmentPathOf(invocations[i]) = FragmentPathOf(invocations[j]))
             => i = j

(***************************************************************************)
(* call_make_predictions: the test of the anchor                           *)
(***************************************************************************)
\* the artifact of call c is of a company with an anchor and does not
\* contain it
C15_Anchorless(c) ==
    /\ c.company \in DOMAIN EXTRACTOR_CHECK
    /\ ~Contains(EXTRACTOR_CHECK[c.company],
                 read_html(c.company, c.data_software, c.html_file))

\* C15: a call of call_make_predictions for an artifact that does not
\* contain the anchor of its company has no request to send: it returns
\* without raising, passes nothing to make_predictions and leaves the
\* output root as it was.
C15_PreFilter ==
    [][Len(calls') = Len(calls) + 1 =>
          LET c == calls'[Len(calls')]
          IN  C15_Anchorless(c) =>
                 /\ Requests(c.company,
                             read_html(c.company, c.data_software,
                                       c.html_file)) = <<>>
                 /\ ~c.raised
                 /\ invocations' = invocations
                 /\ extracted_folder' = extracted_folder]_vars

\* such a call has been made, after a call that did send requests
C15_Witness ==
    \E i \in 1..Len(calls) :
        /\ C15_Anchorless(calls[i])
        /\ invocations # <<>>

(***************************************************************************)
(* produce_predicts run again                                              *)
(***************************************************************************)
\* the output root holds a fragment of artifact f
HasFragment(f) ==
    \E g \in extracted_folder.files :
        /\ g.company = f.company
        /\ g.data_software = f.data_software
        /\ \E ix \in 0..Len(f.content) :
              g.file_name = FragmentName(f.html_file, ix)

\* run k ended by an exception while it was on company c
InterruptedOn(c, k) ==
    \E i \in 1..Len(calls) :
        calls[i].run = k /\ calls[i].company = c /\ calls[i].raised

\* call_make_predictions was called for artifact f in run k
CalledIn(f, k) ==
    \E i \in 1..Len(calls) :
        /\ calls[i].run = k
        /\ calls[i].company = f.company
        /\ calls[i].data_software = f.data_software
        /\ calls[i].html_file = f.html_file

\* C16: when a run of produce_predicts was interrupted on a source and the
\* output root holds fragments of some artifacts of that source and of
\* others none, the next run, once returned, has called
\* call_make_predictions for every artifact of that source.
C16_Reprocessed ==
    \A k \in 1..(driver_run - 1) :
        (driver_run = k + 1 /\ driver_pc = "done") =>
            \A c \in {f.company : f \in split_folder} :
                (/\ InterruptedOn(c, k)
                 /\ \E f \in split_folder : f.company = c /\ HasFragment(f)
                 /\ \E f \in split_folder : f.company = c /\ ~HasFragment(f))
                   => \A f \in split_folder :
                         f.company = c => CalledIn(f, k + 1)

(***************************************************************************)
(* produce_predicts: the order of the calls                                *)
(***************************************************************************)
\* the name of the artifact of call c below the directory of its company
C17_Name(c) ==
    IF c.data_software = "" THEN c.html_file
    ELSE c.data_software \o "/" \o c.html_file

\* C17: within a run the calls of call_make_predictions go through the
\* companies in sorted order and through the artifacts of one company in
\* sorted order of their names, whatever order os.listdir returns; the
\* requests of one artifact are sent in increasing offset order, and the
\* request with index ix is the window of the ix-th offset found.
C17_Order ==
    /\ \A i, j \in 1..Len(calls) :
          (i < j /\ calls[i].run = calls[j].run) =>
             /\ ~StrLess(calls[j].company, calls[i].company)
             /\ calls[i].company = calls[j].company =>
                   ~StrLess(C17_Name(calls[j]), C17_Name(calls[i]))
    /\ \A i, j \in 1..Len(invocations) :
          (/\ i < j
           /\ invocations[i].run = invocations[j].run
           /\ invocations[i].company = invocations[j].company
           /\ C17_Name(invocations[i]) = C17_Name(invocations[j]))
             => invocations[i].ix < invocations[j].ix
    /\ \A i \in 1..Len(invocations) :
          LET v == invocations[i]
              W == Windows(v.company,
                           read_html(v.company, v.data_software, v.html_file))
          IN  /\ v.ix + 1 \in DOMAIN W
              /\ W[v.ix + 1].html_content_split = v.html_content_split
              /\ \A a, b \in DOMAIN W : a < b => W[a].pos < W[b].pos

(***************************************************************************)
(* call_make_predictions: the bound on the request                         *)
(***************************************************************************)
\* the requests that call c passed to make_predictions
C20_SentBy(c) ==
    SelectSeq(invocations,
              LAMBDA v : /\ v.run = c.run
                         /\ v.company = c.company
                         /\ v.data_software = c.data_software
                         /\ v.html_file = c.html_file)

\* the windows of the artifact of call c
C20_WindowsOf(c) ==
    LET html_content == read_html(c.company, c.data_software, c.html_file)
    IN  IF Contains(EXTRACTOR_CHECK[c.company], html_content)
        THEN Windows(c.company, html_content)
        ELSE <<>>

\* the request of window w has reached the bound
C20_Oversized(w) ==
    EXTRACTOR_PROMPT_LEN + Len(w.html_content_split) >= MAX_PROMPT_LEN

C19_NoStore == post_pc \notin {"new", "off"} /\ job_database_df.is_none

\* C19: a run of initiate_post_process that finds no store at
\* job_database_df_path goes on from initialize without one; its
\* remove_old_n_irrelevant_roles does not raise and removes no row but those
\* with 'technician' in the title; and its save_files creates the store with
\* exactly the rows of the run's output.
C19_MissingStore ==
    [][/\ (post_pc = "new" /\ job_database_file.is_none) =>
             /\ post_pc' = "get_job_df"
             /\ job_database_df'.is_none
       /\ (C19_NoStore /\ post_pc = "remove_old_n_irrelevant_roles") =>
             /\ post_pc' # "raised"
             /\ master_df'.rows =
                   SelectSeq(master_df.rows,
                       LAMBDA r : \/ ~IsText(r.job_title)
                                  \/ ~Contains("technician",
                                               Lower(r.job_title)))
       /\ (C19_NoStore /\ post_pc = "save_files") =>
             /\ post_pc' = "done"
             /\ ~job_database_file'.is_none
             /\ job_database_file' = master_df_file'
             /\ master_df_file' = master_df]_vars

\* a run without a store has dropped a technician role and saved an output
\* with a record, which is now the store
C19_Witness ==
    /\ post_run = 1
    /\ post_pc = "done"
    /\ Len(master_df_file.rows) >= 1
    /\ job_database_file = master_df_file
    /\ \E f \in extracted_folder.files :
          f.content = Response(JsonList(<<Dict(JobTechnician)>>))

(***************************************************************************)
(* scrape: the choice of the strategy                                      *)
(***************************************************************************)
\* the strategy the claim names for row r
C21_Chosen(r) ==
    IF r.link_identifier = "scroll" THEN "scroll"
    ELSE IF ~IsNa(r.page_identifier) THEN "paginated"
    ELSE "static"

\* C21: every row is fetched by the strategy its link_identifier and its
\* page_identifier name, whatever its link_type holds: only a row with a
\* page identifier (and not tagged scroll) enters the loop of the paginated
\* strategy, its fetches are those of its pages, the one fetch of a static
\* row is saved as <company>/.txt, and the choice raises nothing.
C21_Resolution ==
    /\ scrape_pc # "ValueError"
    /\ scrape_pc = "pages" => C21_Chosen(CurrentRow) = "paginated"
    /\ \A i \in 1..Len(fetched) :
          LET r == scraping_info_df[fetched[i].row]
          IN  /\ C21_Chosen(r) = "paginated" =>
                    fetched[i].url # r.link
              /\ C21_Chosen(r) # "paginated" =>
                    fetched[i].url = r.link /\ fetched[i].n = 0
    /\ \A i \in 1..Len(written) :
          LET r == scraping_info_df[written[i].row]
          IN  /\ C21_Chosen(r) = "static" =>
                    /\ written[i].data_software = ""
                    /\ written[i].html_file = ".txt"
              /\ C21_Chosen(r) = "paginated" =>
                    /\ written[i].data_software = Str(r.link_type)
                    /\ written[i].html_file = ToString(written[i].n) \o ".txt"

(***************************************************************************)
(* The stages of scrape_clean_extract.py together                          *)
(***************************************************************************)
\* C22: produce_predicts passes the artifacts of a sub-collection to
\* call_make_predictions in the order in which scrape saved them: of two
\* calls for pages of one source, the earlier is for the page saved earlier.
C22_ProductionOrder ==
    \A i, j \in 1..Len(calls) :
        (/\ i < j
         /\ calls[i].company = calls[j].company
         /\ calls[i].data_software = calls[j].data_software)
           => \A a, b \in 1..Len(written) :
                 (/\ SamePath(written[a], calls[i])
                  /\ SamePath(written[b], calls[j]))
                    => a < b

\* C25: get_job_df does not fail on a directory produce_predicts created,
\* whatever the name of the sub-collection, and once it has returned every
\* record of every fragment under the output root is a row of master_df
\* under the company of the fragment.
C25_Layout ==
    /\ post_error # "IsADirectoryError"
    /\ post_pc = "process_master_df" =>
          \A f \in extracted_folder.files :
             \A k \in 1..Len(f.content) :
                f.content[k].t = "dict" =>
                   \E n \in 1..Len(master_df.rows) :
                      LET row == master_df.rows[n]
                      IN  /\ {"Job ID", "company"} \subseteq DOMAIN row
                          /\ row["Job ID"] = f.content[k].d["Job ID"]
                          /\ row["company"] = f.company

(***************************************************************************)
(* save_files: the store                                                   *)
(***************************************************************************)
\* the links of the rows of a frame
C23_Links(df) == {df.rows[i].job_link : i \in 1..Len(df.rows)}

\* C23: a step that writes the store finds the run output already written;
\* it leaves every row the store held in place and unchanged, the rows it
\* adds after them are exactly those of the run output, and none of them has
\* a link the store held before.
C23_AppendOnly ==
    [][job_database_file' # job_database_file =>
          LET old == job_database_file
              new == job_database_file'
              n   == Len(old.rows)
          IN  /\ ~master_df_file.is_none
              /\ master_df_file = master_df
              /\ master_df_file' = master_df_file
              /\ Len(new.rows) = n + Len(master_df_file.rows)
              /\ \A i \in 1..n : new.rows[i] = old.rows[i]
              /\ \A i \in 1..Len(master_df_file.rows) :
                    /\ new.rows[n + i] = master_df_file.rows[i]
                    /\ new.rows[n + i].job_link \notin C23_Links(old)]_vars

\* a run has added one record to a store that held one, after leaving out a
\* record of its fragments whose link the store held
C23_Witness ==
    /\ post_pc = "done"
    /\ post_run = 1
    /\ Len(job_database_file.rows) = 2
    /\ Len(master_df_file.rows) = 1
    /\ job_database_file.rows[1].job_title = "Data Engineer II"
    /\ job_database_file.rows[2] = master_df_file.rows[1]
    /\ \E f \in extracted_folder.files :
          /\ f.company = "amazon"
          /\ \E k \in 1..Len(f.content) : f.content[k] = Dict(JobRelative)

(***************************************************************************)
(* produce_predicts: what marks a source as done                           *)
(***************************************************************************)
\* no artifact of company c yields a request to make_predictions
C24_NoRequest(c) ==
    \A f \in split_folder :
        f.company = c => RequestsOf(f.company, f.data_software, f.html_file) = <<>>

\* C24: after any run of produce_predicts, ended by returning or by an
\* exception, the output root has an entry for a source if and only if it
\* holds at least one fragment of that source; and a source none of whose
\* artifacts yields a request has no entry, so that a run that returns has
\* called call_make_predictions for each of its artifacts again.
C24_DoneByFragment ==
    driver_pc \in {"done", "raised"} =>
        \A c \in ListSplit \cup ListExtracted :
            /\ c \in ListExtracted <=> FragmentsOf(c) # {}
            /\ (C24_NoRequest(c) /\ FragmentsOf(c) = {}) =>
                  /\ c \notin ListExtracted
                  /\ driver_pc = "done" =>
                        \A f \in split_folder :
                            f.company = c => CalledIn(f, driver_run)

====
